---------------------------- MODULE Spec2Model ----------------------------
(***************************************************************************)
(* Border-hash LSB text watermarking (watermark.py, main.py).              *)
(*                                                                         *)
(* An image is a record [h, w, px] with px[y][x][c] in 0..255, indexed     *)
(* from 0 as the numpy array is.  A message is a sequence of Unicode       *)
(* code points.  hashlib.sha256 and the Mersenne Twister behind            *)
(* random.seed / random.shuffle are library code; they are modelled by     *)
(* small deterministic stand-ins of the same shape (a digest that folds    *)
(* the border bytes in order, a generator whose whole state is set by      *)
(* seed() and advanced by every draw).                                     *)
(***************************************************************************)
EXTENDS Integers, Sequences, FiniteSets, TLC

VARIABLES
    input,      \* the image file at the input path
    output,     \* the image file written by embed_message, or NoFile
    buffer,     \* the in-memory pixel buffer at the end of the last operation
    rng,        \* state of the process-wide generator of module random
    ret,        \* outcome of the last operation (return value or exception)
    embedded,   \* message of the last embed_message call that saved output
    calls,      \* log of direct generate_pseudo_random_positions calls
    th          \* the two concurrent position generations

vars == <<input, output, buffer, rng, ret, embedded, calls, th>>

-----------------------------------------------------------------------------
(* Program constants *)

HeaderBits == 16
MaxMessageBytes == 65535
DigestWords == 3
RngModulus == 65536

NoFile == [h |-> 0, w |-> 0, px |-> <<>>]
NoMessage == <<"none">>

Min(a, b) == IF a < b THEN a ELSE b

Pow2(k) == 2 ^ k

\* TLC evaluates operator arguments and LET definitions on demand; a loop
\* compares each intermediate value before it continues, so that the value is
\* computed there and not from inside the iterations that follow.
Evaluated(v) == v = v

RECURSIVE Flatten(_)
Flatten(ss) ==
    IF Len(ss) = 0 THEN <<>>
    ELSE IF Len(ss) = 1 THEN ss[1]
    ELSE LET m == Len(ss) \div 2
         IN  Flatten(SubSeq(ss, 1, m)) \o Flatten(SubSeq(ss, m + 1, Len(ss)))

-----------------------------------------------------------------------------
(* str.encode('utf-8') and bytes.decode('utf-8') *)

EncodeChar(cp) ==
    IF cp < 128 THEN <<cp>>
    ELSE IF cp < 2048 THEN <<192 + (cp \div 64), 128 + (cp % 64)>>
    ELSE IF cp < 65536 THEN
        <<224 + (cp \div 4096), 128 + ((cp \div 64) % 64), 128 + (cp % 64)>>
    ELSE <<240 + (cp \div 262144), 128 + ((cp \div 4096) % 64),
           128 + ((cp \div 64) % 64), 128 + (cp % 64)>>

Utf8Encode(message) == Flatten([i \in 1..Len(message) |-> EncodeChar(message[i])])

IsCont(b) == b >= 128 /\ b <= 191

\* Number of bytes of the well-formed sequence starting at bs[i], 0 if none.
SeqLenAt(bs, i) ==
    LET b0 == bs[i]
        n == Len(bs)
        b1 == IF i + 1 <= n THEN bs[i + 1] ELSE 0
        b2 == IF i + 2 <= n THEN bs[i + 2] ELSE 0
        b3 == IF i + 3 <= n THEN bs[i + 3] ELSE 0
    IN  IF b0 < 128 THEN 1
        ELSE IF b0 >= 194 /\ b0 <= 223 THEN (IF IsCont(b1) THEN 2 ELSE 0)
        ELSE IF b0 = 224 THEN
            (IF b1 >= 160 /\ b1 <= 191 /\ IsCont(b2) THEN 3 ELSE 0)
        ELSE IF b0 = 237 THEN
            (IF b1 >= 128 /\ b1 <= 159 /\ IsCont(b2) THEN 3 ELSE 0)
        ELSE IF b0 >= 225 /\ b0 <= 239 THEN
            (IF IsCont(b1) /\ IsCont(b2) THEN 3 ELSE 0)
        ELSE IF b0 = 240 THEN
            (IF b1 >= 144 /\ b1 <= 191 /\ IsCont(b2) /\ IsCont(b3) THEN 4 ELSE 0)
        ELSE IF b0 >= 241 /\ b0 <= 243 THEN
            (IF IsCont(b1) /\ IsCont(b2) /\ IsCont(b3) THEN 4 ELSE 0)
        ELSE IF b0 = 244 THEN
            (IF b1 >= 128 /\ b1 <= 143 /\ IsCont(b2) /\ IsCont(b3) THEN 4 ELSE 0)
        ELSE 0

DecodeChar(bs, i, k) ==
    IF k = 1 THEN bs[i]
    ELSE IF k = 2 THEN (bs[i] - 192) * 64 + (bs[i + 1] - 128)
    ELSE IF k = 3 THEN
        (bs[i] - 224) * 4096 + (bs[i + 1] - 128) * 64 + (bs[i + 2] - 128)
    ELSE (bs[i] - 240) * 262144 + (bs[i + 1] - 128) * 4096
         + (bs[i + 2] - 128) * 64 + (bs[i + 3] - 128)

\* [ok, text]: ok is FALSE where Python raises UnicodeDecodeError.
RECURSIVE Utf8DecodeFrom(_, _, _)
Utf8DecodeFrom(bs, i, acc) ==
    IF i > Len(bs) THEN [ok |-> TRUE, text |-> acc]
    ELSE LET k == SeqLenAt(bs, i)
         IN  IF k = 0 THEN [ok |-> FALSE, text |-> <<>>]
             ELSE Utf8DecodeFrom(bs, i + k, Append(acc, DecodeChar(bs, i, k)))

Utf8Decode(bs) == Utf8DecodeFrom(bs, 1, <<>>)

-----------------------------------------------------------------------------
(* compute_border_hash *)

Row(image, y) ==
    Flatten([x \in 1..image.w |-> [c \in 1..3 |-> image.px[y][x - 1][c - 1]]])

Col(image, x) ==
    Flatten([y \in 1..(image.h - 2) |-> [c \in 1..3 |-> image.px[y][x][c - 1]]])

BorderPixels(image) ==
    Row(image, 0) \o Row(image, image.h - 1)
        \o Col(image, 0) \o Col(image, image.w - 1)

HashModulus == 32749

\* Stand-in for the compression of SHA-256: a word that depends on every byte
\* and on the order of the bytes.  The word of bytes[lo..hi] is
\* word(a \o b) = word(a) * 31^Len(b) + word(b), evaluated by halving.
RECURSIVE Absorb(_, _, _)
Absorb(bytes, lo, hi) ==
    IF lo > hi THEN [word |-> 0, pow |-> 1]
    ELSE IF lo = hi THEN [word |-> bytes[lo] + 1, pow |-> 31]
    ELSE LET m == (lo + hi) \div 2
             l == Absorb(bytes, lo, m)
             r == Absorb(bytes, m + 1, hi)
         IN  [word |-> (l.word * r.pow + r.word) % HashModulus,
              pow |-> (l.pow * r.pow) % HashModulus]

HexWord(v) == <<v \div 4096, (v \div 256) % 16, (v \div 16) % 16, v % 16>>

\* Stand-in for hashlib.sha256(...).hexdigest(): 4*DigestWords hex digits.
Sha256Hex(bytes) ==
    LET word == Absorb(bytes, 1, Len(bytes)).word
    IN  Flatten([k \in 1..DigestWords |->
                    HexWord((word * (2 * k + 1) + 7919 * k) % HashModulus)])

compute_border_hash(image) == Sha256Hex(BorderPixels(image))

-----------------------------------------------------------------------------
(* module random: seed, _randbelow, shuffle *)

RECURSIVE IntFromHex(_, _, _)
IntFromHex(digits, i, acc) ==
    IF i > Len(digits) THEN acc
    ELSE IntFromHex(digits, i + 1, acc * 16 + digits[i])

\* int(hash_value, 16) % (2**32), as two 16-bit halves <<high, low>>.
SeedOf(hash_value) ==
    LET n == Len(hash_value)
    IN  <<IntFromHex(SubSeq(hash_value, n - 7, n - 4), 1, 0),
          IntFromHex(SubSeq(hash_value, n - 3, n), 1, 0)>>

RandomSeedSkipped(state, seed) == state

\* random.seed(seed): the generator's state becomes a function of seed alone.
RandomSeed(state, seed) == (seed[1] * 31 + seed[2] * 17 + 1) % RngModulus

RngStep(state) == (state * 25173 + 13849) % RngModulus

RECURSIVE BitLength(_)
BitLength(n) == IF n = 0 THEN 0 ELSE 1 + BitLength(n \div 2)

\* getrandbits(k) until the draw is below n.
RECURSIVE RandBelow(_, _)
RandBelow(state, n) ==
    LET s == RngStep(state)
        r == s \div Pow2(16 - BitLength(n))
    IN  IF r < n THEN [value |-> r, state |-> s] ELSE RandBelow(s, n)

Swap(x, a, b) == [x EXCEPT ![a] = x[b], ![b] = x[a]]

\* One iteration of shuffle's loop at 0-based index i.
ShuffleStep(x, i, state) ==
    LET d == RandBelow(state, i + 1)
    IN  [list |-> Swap(x, i + 1, d.value + 1), state |-> d.state]

\* for i in reversed(range(lo, hi + 1)): the iterations hi..m, then m-1..lo.
RECURSIVE ShuffleSteps(_, _, _, _)
ShuffleSteps(x, state, hi, lo) ==
    IF hi < lo THEN [list |-> x, state |-> state]
    ELSE IF hi = lo THEN ShuffleStep(x, hi, state)
    ELSE LET m == (hi + lo + 1) \div 2
             upper == ShuffleSteps(x, state, hi, m)
         IN  IF Evaluated(upper)
             THEN ShuffleSteps(upper.list, upper.state, m - 1, lo)
             ELSE upper

\* random.shuffle(x): for i in reversed(range(1, len(x)))
RandomShuffle(x, state) == ShuffleSteps(x, state, Len(x) - 1, 1)

-----------------------------------------------------------------------------
(* generate_pseudo_random_positions *)

InteriorPixelsWithBorder(height, width) ==
    Flatten([y \in 1..height |-> [x \in 1..width |-> <<y - 1, x - 1>>]])

InteriorPixels(height, width) ==
    Flatten([y \in 1..(height - 2) |-> [x \in 1..(width - 2) |-> <<y, x>>]])

TooSmallOffByOne(total_interior_pixels, num_bits) ==
    total_interior_pixels <= num_bits

TooSmall(total_interior_pixels, num_bits) == total_interior_pixels < num_bits

TakeRepeatingFirst(x, num_bits) == [i \in 1..num_bits |-> x[1]]

Take(x, num_bits) == SubSeq(x, 1, num_bits)

\* [raised, positions, rng]: raised where the ValueError of line 56 is raised.
GeneratePositions(state, hash_value, height, width, num_bits) ==
    LET seeded == RandomSeed(state, SeedOf(hash_value))
        interior_pixels == InteriorPixels(height, width)
    IN  IF TooSmall(Len(interior_pixels), num_bits)
        THEN [raised |-> TRUE, positions |-> <<>>, rng |-> seeded]
        ELSE LET sh == RandomShuffle(interior_pixels, seeded)
             IN  [raised |-> FALSE, positions |-> Take(sh.list, num_bits),
                  rng |-> sh.state]

-----------------------------------------------------------------------------
(* embed_message *)

Interior(image) == (image.h - 2) * (image.w - 2)

BitOfByteLsbFirst(byte, bit_pos) == (byte \div Pow2(bit_pos)) % 2

\* (byte >> (7 - bit_pos)) & 1
BitOfByte(byte, bit_pos) == (byte \div Pow2(7 - bit_pos)) % 2

WriteBitOverwriting(image, pos, bit) ==
    [image EXCEPT !.px[pos[1]][pos[2]][0] = bit]

\* image[y, x, 0] = image[y, x, 0] & 0xFE;  image[y, x, 0] = image[y, x, 0] | bit
WriteBit(image, pos, bit) ==
    [image EXCEPT !.px[pos[1]][pos[2]][0] = (@ - (@ % 2)) + bit]

\* The iterations bit_index = first .. last - 1 of the two nested loops over
\* data_to_hide: first..m-1, then m..last-1.
RECURSIVE WriteLoop(_, _, _, _, _)
WriteLoop(image, positions, data_to_hide, first, last) ==
    IF first >= last THEN image
    ELSE IF first + 1 = last
    THEN LET byte == data_to_hide[(first \div 8) + 1]
             bit == BitOfByte(byte, first % 8)
         IN  WriteBit(image, positions[first + 1], bit)
    ELSE LET m == (first + last) \div 2
             lower == WriteLoop(image, positions, data_to_hide, first, m)
         IN  IF Evaluated(lower)
             THEN WriteLoop(lower, positions, data_to_hide, m, last)
             ELSE lower

SizeTooLargeOffByOne(message_length) == message_length >= MaxMessageBytes

SizeTooLarge(message_length) == message_length > MaxMessageBytes

\* message_length.to_bytes(2, byteorder='big')
LengthBytes(message_length) == <<message_length \div 256, message_length % 256>>

\* The inputs of embed_message.
Repeat(cp, n) == [i \in 1..n |-> cp]

Messages ==
    { <<>>, <<65>>, <<233>>, <<8364>>, <<128512>>,
      Repeat(97, MaxMessageBytes), Repeat(97, MaxMessageBytes + 1) }

Variants == {"watermark", "benchmark"}

\* message.encode('utf-8'), tabulated once over the inputs.
Utf8Table == [m \in Messages |-> Utf8Encode(m)]

\* src/watermark.py returns the payload bit count, src/src/watermark.py
\* returns (timing, total_bits).
EmbedReturn(variant, message_bytes, total_bits) ==
    IF variant = "benchmark" THEN total_bits ELSE Len(message_bytes) * 8

EmbedResult(msglen, raised, error, value, saved) ==
    [op |-> "embed", src |-> "input", msglen |-> msglen, raised |-> raised,
     error |-> error, kind |-> "bits", value |-> value, saved |-> saved]

\* [ret, buffer, rng]
EmbedOutcome(image, state, message, variant) ==
    LET border_hash == compute_border_hash(image)
        message_bytes == Utf8Table[message]
        message_length == Len(message_bytes)
    IN  IF SizeTooLarge(message_length)
        THEN [ret |-> EmbedResult(message_length, TRUE, "size", 0, FALSE),
              buffer |-> image, rng |-> state]
        ELSE
        LET data_to_hide == LengthBytes(message_length) \o message_bytes
            total_bits == Len(data_to_hide) * 8
            gen == GeneratePositions(state, border_hash, image.h, image.w,
                                     total_bits)
        IN  IF gen.raised
            THEN [ret |-> EmbedResult(message_length, TRUE, "capacity", 0, FALSE),
                  buffer |-> image, rng |-> gen.rng]
            ELSE [ret |-> EmbedResult(message_length, FALSE, "none",
                            EmbedReturn(variant, message_bytes, total_bits), TRUE),
                  buffer |-> WriteLoop(image, gen.positions, data_to_hide, 0,
                                     total_bits),
                  rng |-> gen.rng]

-----------------------------------------------------------------------------
(* extract_message *)

ReadBits(image, positions, first, last) ==
    [i \in 1..(last - first) |->
        image.px[positions[first + i][1]][positions[first + i][2]][0] % 2]

\* byte = (byte << 1) | bits[i*8 + j] for j in range(8), where the bit exists
RECURSIVE ShiftIn(_, _, _, _)
ShiftIn(bits, i, j, byte) ==
    IF j >= 8 THEN byte
    ELSE ShiftIn(bits, i, j + 1,
                 IF i * 8 + j < Len(bits) THEN byte * 2 + bits[i * 8 + j + 1]
                 ELSE byte)

BytesFromBits(bits, count) == [i \in 1..count |-> ShiftIn(bits, i - 1, 0, 0)]

\* int.from_bytes(length_bytes, byteorder='big')
IntFromBytes(length_bytes) == length_bytes[1] * 256 + length_bytes[2]

InvalidLengthZeroAllowed(message_length) == message_length > MaxMessageBytes

InvalidLength(message_length) ==
    message_length > MaxMessageBytes \/ message_length <= 0

HexDigits(bytes) == Flatten([i \in 1..Len(bytes) |-> <<bytes[i] \div 16, bytes[i] % 16>>])

\* hex_data[:64]
HexPrefix(bytes) == LET hex_data == HexDigits(bytes)
                    IN  SubSeq(hex_data, 1, Min(64, Len(hex_data)))

ExtractResult(src, msglen, raised, error, kind, value) ==
    [op |-> "extract", src |-> src, msglen |-> msglen, raised |-> raised,
     error |-> error, kind |-> kind, value |-> value, saved |-> FALSE]

\* [ret, rng]
ExtractOutcome(image, state, src) ==
    LET border_hash == compute_border_hash(image)
        header == GeneratePositions(state, border_hash, image.h, image.w,
                                    HeaderBits)
    IN  IF header.raised
        THEN [ret |-> ExtractResult(src, 0, TRUE, "capacity", "none", <<>>),
              rng |-> header.rng]
        ELSE
        LET length_bits == ReadBits(image, header.positions, 0, 16)
            length_bytes == BytesFromBits(length_bits, 2)
            message_length == IntFromBytes(length_bytes)
        IN  IF InvalidLength(message_length)
            THEN [ret |-> ExtractResult(src, message_length, FALSE, "none",
                                        "invalid_length", <<message_length>>),
                  rng |-> header.rng]
            ELSE
            LET total_bits == 16 + message_length * 8
                full == GeneratePositions(header.rng, border_hash, image.h,
                                          image.w, total_bits)
            IN  IF full.raised
                THEN [ret |-> ExtractResult(src, message_length, TRUE,
                                            "capacity", "none", <<>>),
                      rng |-> full.rng]
                ELSE
                LET message_bits == ReadBits(image, full.positions, 16, total_bits)
                    message_bytes == BytesFromBits(message_bits, message_length)
                    decoded == Utf8Decode(message_bytes)
                IN  IF decoded.ok
                    THEN [ret |-> ExtractResult(src, message_length, FALSE,
                                                "none", "text", decoded.text),
                          rng |-> full.rng]
                    ELSE [ret |-> ExtractResult(src, message_length, FALSE,
                                    "none", "decode_error", HexPrefix(message_bytes)),
                          rng |-> full.rng]

-----------------------------------------------------------------------------
(* Input images: what cv2.imread can return (3 channels of 0..255) *)

MaxBorder == 1

\* <<height, width>>: 1, 15, 16, 24, 32 and 40 interior pixels.
Dims == { <<3, 3>>, <<5, 7>>, <<4, 10>>, <<6, 8>>, <<6, 10>>, <<6, 12>> }

NoiseDims == <<6, 8>>

BorderValue(b, y, x, c) == (b * 101 + y * 37 + x * 11 + c * 5 + 1) % 256

\* Channel 0 of interior pixel number k is p.hi where k is in p.hot, else p.lo.
Patterns(d) ==
    LET n == (d[1] - 2) * (d[2] - 2)
    IN  { [lo |-> 0, hi |-> 255, hot |-> {}],
          [lo |-> 255, hi |-> 0, hot |-> {}],
          [lo |-> 6, hi |-> 129, hot |-> {k \in 0..(n - 1) : k % 3 = 0}] }

\* Unmarked images: every interior least-significant bit 0 but at most two.
NoisePatterns(d) ==
    LET n == (d[1] - 2) * (d[2] - 2)
    IN  { [lo |-> 0, hi |-> 1, hot |-> {a, b}] :
              a \in 0..(n - 1), b \in 0..(n - 1) }

MakeImage(d, b, p) ==
    [h |-> d[1], w |-> d[2],
     px |-> [y \in 0..(d[1] - 1) |-> [x \in 0..(d[2] - 1) |-> [c \in 0..2 |->
        IF y = 0 \/ y = d[1] - 1 \/ x = 0 \/ x = d[2] - 1
        THEN BorderValue(b, y, x, c)
        ELSE IF c = 0
        THEN (IF (y - 1) * (d[2] - 2) + (x - 1) \in p.hot THEN p.hi ELSE p.lo)
        ELSE (y * 16 + x * 3 + c * 90) % 256]]]]

Images == UNION { {MakeImage(d, b, p) : p \in Patterns(d)} :
                      d \in Dims, b \in 0..MaxBorder }

NoiseImages == { MakeImage(NoiseDims, 0, p) : p \in NoisePatterns(NoiseDims) }

NoResult ==
    [op |-> "none", src |-> "none", msglen |-> 0, raised |-> FALSE,
     error |-> "none", kind |-> "none", value |-> <<>>, saved |-> FALSE]

NoThreads == <<>>

-----------------------------------------------------------------------------
(* Sequential use: main.py runs one embed or extract per process run *)

Init ==
    /\ input \in Images
    /\ output = NoFile
    /\ buffer = NoFile
    /\ rng = 0
    /\ ret = NoResult
    /\ embedded = NoMessage
    /\ calls = {}
    /\ th = NoThreads

\* embed_message(input_path, output_path, message), either variant
Embed(message, variant) ==
    \E o \in {EmbedOutcome(input, rng, message, variant)} :
        /\ ret' = o.ret
        /\ buffer' = o.buffer
        /\ rng' = o.rng
        /\ output' = IF o.ret.saved THEN o.buffer ELSE output
        /\ embedded' = IF o.ret.saved THEN message ELSE embedded
        /\ UNCHANGED <<input, calls, th>>

\* extract_message(input_path) on the original image
ExtractInput ==
    \E o \in {ExtractOutcome(input, rng, "input")} :
        /\ ret' = o.ret
        /\ rng' = o.rng
        /\ buffer' = input
        /\ UNCHANGED <<input, output, embedded, calls, th>>

\* extract_message(input_path) on the image embed_message saved
ExtractOutput ==
    /\ output # NoFile
    /\ \E o \in {ExtractOutcome(output, rng, "output")} :
        /\ ret' = o.ret
        /\ rng' = o.rng
        /\ buffer' = output
        /\ UNCHANGED <<input, output, embedded, calls, th>>

Next ==
    \/ \E message \in Messages, variant \in Variants : Embed(message, variant)
    \/ ExtractInput
    \/ ExtractOutput

Spec == Init /\ [][Next]_vars

-----------------------------------------------------------------------------
(* Extraction from images that carry no watermark *)

InitNoise ==
    /\ input \in Images \cup NoiseImages
    /\ output = NoFile
    /\ buffer = NoFile
    /\ rng = 0
    /\ ret = NoResult
    /\ embedded = NoMessage
    /\ calls = {}
    /\ th = NoThreads

NextNoise == ExtractInput

SpecNoise == InitNoise /\ [][NextNoise]_vars


-----------------------------------------------------------------------------
(* A sequential history of calls of generate_pseudo_random_positions *)

MaxCalls == 3
MaxCount == 4

\* Border hashes of two images, and two image sizes (2 and 4 interior pixels).
Fingerprints == { Sha256Hex(<<10, 20, 30>>), Sha256Hex(<<30, 20, 10>>) }

GenDims == { <<3, 4>>, <<4, 4>> }

InitGen ==
    /\ input = NoFile
    /\ output = NoFile
    /\ buffer = NoFile
    /\ rng = 0
    /\ ret = NoResult
    /\ embedded = NoMessage
    /\ calls = {}
    /\ th = NoThreads

GenCall(hash_value, d, num_bits) ==
    /\ Cardinality(calls) < MaxCalls
    /\ \E g \in {GeneratePositions(rng, hash_value, d[1], d[2], num_bits)} :
        /\ calls' = calls \cup
              {[hash |-> hash_value, h |-> d[1], w |-> d[2], n |-> num_bits,
                raised |-> g.raised, positions |-> g.positions]}
        /\ rng' = g.rng
    /\ UNCHANGED <<input, output, buffer, ret, embedded, th>>

NextGen ==
    \E hash_value \in Fingerprints, d \in GenDims, num_bits \in 0..MaxCount :
        GenCall(hash_value, d, num_bits)

SpecGen == InitGen /\ [][NextGen]_vars

-----------------------------------------------------------------------------
(* Two operations on two images in two threads of one process: each runs   *)
(* generate_pseudo_random_positions on the one generator of module random. *)

Threads == {1, 2}

ParCounts == {1, 3}

ThreadStart(hash_value, d, num_bits) ==
    [pc |-> "start", hash |-> hash_value, h |-> d[1], w |-> d[2],
     n |-> num_bits, list |-> <<>>, i |-> 0, result |-> <<>>]

InitPar ==
    /\ input = NoFile
    /\ output = NoFile
    /\ buffer = NoFile
    /\ rng = 0
    /\ ret = NoResult
    /\ embedded = NoMessage
    /\ calls = {}
    /\ th \in [Threads -> { ThreadStart(f, d, n) :
                              f \in Fingerprints, d \in GenDims, n \in ParCounts }]

\* random.seed(seed)
ParSeed(t) ==
    /\ th[t].pc = "start"
    /\ rng' = RandomSeed(rng, SeedOf(th[t].hash))
    /\ th' = [th EXCEPT ![t].pc = "seeded"]
    /\ UNCHANGED <<input, output, buffer, ret, embedded, calls>>

\* the list of interior pixels and the capacity check
ParEnumerate(t) ==
    /\ th[t].pc = "seeded"
    /\ LET interior_pixels == InteriorPixels(th[t].h, th[t].w)
       IN  th' = IF TooSmall(Len(interior_pixels), th[t].n)
                 THEN [th EXCEPT ![t].pc = "raised"]
                 ELSE [th EXCEPT ![t].pc = "shuffling",
                                 ![t].list = interior_pixels,
                                 ![t].i = Len(interior_pixels) - 1]
    /\ UNCHANGED <<input, output, buffer, rng, ret, embedded, calls>>

\* one iteration of random.shuffle's loop
ParShuffleStep(t) ==
    /\ th[t].pc = "shuffling"
    /\ th[t].i >= 1
    /\ \E r \in {ShuffleStep(th[t].list, th[t].i, rng)} :
        /\ rng' = r.state
        /\ th' = [th EXCEPT ![t].list = r.list, ![t].i = @ - 1]
    /\ UNCHANGED <<input, output, buffer, ret, embedded, calls>>

\* return interior_pixels[:num_bits]
ParReturn(t) ==
    /\ th[t].pc = "shuffling"
    /\ th[t].i < 1
    /\ th' = [th EXCEPT ![t].pc = "done",
                        ![t].result = Take(th[t].list, th[t].n)]
    /\ UNCHANGED <<input, output, buffer, rng, ret, embedded, calls>>

NextPar ==
    \E t \in Threads :
        \/ ParSeed(t)
        \/ ParEnumerate(t)
        \/ ParShuffleStep(t)
        \/ ParReturn(t)

SpecPar == InitPar /\ [][NextPar]_vars

-----------------------------------------------------------------------------
(* Properties *)

TotalBits(msglen) == HeaderBits + 8 * msglen

IsBorder(image, y, x) ==
    y = 0 \/ y = image.h - 1 \/ x = 0 \/ x = image.w - 1

\* C1: after embed_message has saved a message of 1..65535 UTF-8 bytes,
\* extract_message on the saved image returns exactly that message, whatever
\* the interior pixels of the input image were.
C1_RoundTrip ==
    (ret.op = "extract" /\ ret.src = "output"
        /\ Len(Utf8Table[embedded]) >= 1
        /\ Len(Utf8Table[embedded]) <= MaxMessageBytes)
    => (~ret.raised /\ ret.kind = "text" /\ ret.value = embedded)

\* A two-byte message read back from an image whose interior bits were all 1.
C1_Witness ==
    /\ ret.op = "extract" /\ ret.src = "output"
    /\ ret.kind = "text" /\ ret.value = <<233>>
    /\ embedded = <<233>>
    /\ input.px[1][1][0] = 255

\* C2: extract_message never raises, whatever the interior pixels are: it
\* returns the invalid-length diagnostic, the decode-failure diagnostic or a
\* decoded text.
C2_ExtractNeverRaises ==
    ret.op = "extract"
    => (~ret.raised /\ ret.kind \in {"invalid_length", "decode_error", "text"})

\* C3: embed_message raises the capacity error exactly when 16 + 8*len(bytes)
\* exceeds (H-2)*(W-2) and succeeds when the two are equal; the calls that
\* extract_message makes of generate_pseudo_random_positions fail at the same
\* threshold (16 positions, then 16 + 8*length positions).
C3_CapacityBoundary ==
    /\ (ret.op = "embed" /\ ret.msglen <= MaxMessageBytes)
       => /\ ret.raised <=> (TotalBits(ret.msglen) > Interior(input))
          /\ ret.raised => (ret.error = "capacity" /\ ~ret.saved)
          /\ ~ret.raised => ret.saved
    /\ ret.op = "extract"
       => /\ ret.raised <=>
                \/ HeaderBits > Interior(buffer)
                \/ (ret.msglen >= 1 /\ TotalBits(ret.msglen) > Interior(buffer))
          /\ ret.raised => ret.error = "capacity"

\* An embed whose bit count is exactly the number of interior pixels.
C3_Witness ==
    /\ ret.op = "embed" /\ ~ret.raised
    /\ ret.msglen >= 1
    /\ TotalBits(ret.msglen) = Interior(input)

\* C4: embed_message raises the size error exactly for a message of more than
\* 65535 UTF-8 bytes (65535 bytes pass the check), and a call that raises it
\* has modified no pixel of its buffer and has written no output image, also
\* when the image is too small as well.
C4_LengthBoundary ==
    [][ ret'.op = "embed"
        => /\ (ret'.raised /\ ret'.error = "size")
                  <=> (ret'.msglen > MaxMessageBytes)
           /\ ret'.error = "size"
                  => (buffer' = input /\ output' = output /\ ~ret'.saved) ]_vars

\* A 65536-byte message rejected on an image that is also too small, after an
\* earlier embed had saved an output image.
C4_Witness ==
    /\ ret.op = "embed" /\ ret.raised /\ ret.error = "size"
    /\ ret.msglen = MaxMessageBytes + 1
    /\ TotalBits(ret.msglen) > Interior(input)
    /\ output # NoFile
    /\ buffer = input

\* C5: a successful embed_message leaves every channel of every pixel of the
\* outermost ring as it was, so the border hash and the seed derived from it
\* are the same for the saved image as for the input image.
C5_BorderInvariance ==
    (ret.op = "embed" /\ ~ret.raised)
    => /\ output = buffer
       /\ buffer.h = input.h /\ buffer.w = input.w
       /\ \A y \in 0..(input.h - 1), x \in 0..(input.w - 1) :
              IsBorder(input, y, x) => buffer.px[y][x] = input.px[y][x]
       /\ compute_border_hash(buffer) = compute_border_hash(input)
       /\ SeedOf(compute_border_hash(output)) = SeedOf(compute_border_hash(input))

\* A successful embed that changed interior pixels.
C5_Witness ==
    /\ ret.op = "embed" /\ ~ret.raised
    /\ ret.msglen >= 1
    /\ buffer # input

\* C6: a successful embed_message returns 16 + 8*len(bytes), the number of
\* bits it wrote.
C6_ReturnsTotalBits ==
    (ret.op = "embed" /\ ~ret.raised) => ret.value = TotalBits(ret.msglen)

\* C7 as claimed: the empty message round-trips, extract_message returns the
\* empty string.
C7_EmptyRoundTrip ==
    (ret.op = "extract" /\ ret.src = "output" /\ embedded = <<>>)
    => (~ret.raised /\ ret.kind = "text" /\ ret.value = <<>>)

\* C7 amended: embed_message with the empty string on an image of at least 16
\* interior pixels succeeds and sets the channel-0 least-significant bit of the
\* 16 header positions to 0, changing no other pixel; extract_message on the
\* result returns the invalid-length diagnostic for length 0, not the empty
\* string.
C7_EmptyMessage ==
    /\ (ret.op = "embed" /\ ret.msglen = 0 /\ Interior(input) >= HeaderBits)
       => /\ ~ret.raised /\ ret.saved
          /\ LET header == GeneratePositions(0, compute_border_hash(input),
                                             input.h, input.w, HeaderBits).positions
                 at == {header[i] : i \in 1..HeaderBits}
             IN  \A y \in 0..(input.h - 1), x \in 0..(input.w - 1) :
                     IF <<y, x>> \in at
                     THEN buffer.px[y][x][0] % 2 = 0
                     ELSE buffer.px[y][x] = input.px[y][x]
    /\ (ret.op = "extract" /\ ret.src = "output" /\ embedded = <<>>)
       => (~ret.raised /\ ret.kind = "invalid_length" /\ ret.value = <<0>>)

\* The diagnostic returned for an embedded empty message.
C7_Witness ==
    /\ ret.op = "extract" /\ ret.src = "output" /\ embedded = <<>>
    /\ ret.kind = "invalid_length"
    /\ input.px[1][1][0] = 255

\* C8: when the two threads work on images with different border hashes,
\* each position generation returns, under every interleaving, the sequence
\* it returns when it runs alone.
C8_ParallelAsAlone ==
    th[1].hash # th[2].hash
    => \A t \in Threads :
           th[t].pc = "done"
           => th[t].result = GeneratePositions(0, th[t].hash, th[t].h,
                                               th[t].w, th[t].n).positions

\* C9: in any sequential history of calls, two successful calls with the same
\* fingerprint, height and width and counts k <= k' return sequences of which
\* the first is the first k elements of the second.
C9_Reproducible ==
    \A a \in calls, b \in calls :
        (a.hash = b.hash /\ a.h = b.h /\ a.w = b.w /\ a.n <= b.n
            /\ ~a.raised /\ ~b.raised)
        => a.positions = SubSeq(b.positions, 1, a.n)

\* Calls for k < k' on one fingerprint and size, and a call with another
\* fingerprint, in one history.
C9_Witness ==
    \E a \in calls, b \in calls, c \in calls :
        /\ a.hash = b.hash /\ a.h = b.h /\ a.w = b.w
        /\ a.n >= 2 /\ a.n < b.n /\ ~b.raised
        /\ c.hash # a.hash /\ ~c.raised /\ c.n >= 2

\* C10: a successful call returns exactly count positions, pairwise distinct,
\* each with 1 <= row <= H-2 and 1 <= col <= W-2.
C10_WellFormed ==
    \A c \in calls :
        ~c.raised
        => /\ Len(c.positions) = c.n
           /\ \A i \in 1..c.n, j \in 1..c.n :
                  c.positions[i] = c.positions[j] => i = j
           /\ \A i \in 1..c.n :
                  /\ 1 <= c.positions[i][1] /\ c.positions[i][1] <= c.h - 2
                  /\ 1 <= c.positions[i][2] /\ c.positions[i][2] <= c.w - 2

\* A successful call for every interior pixel of a 4x4 image.
C10_Witness ==
    \E c \in calls : ~c.raised /\ c.h = 4 /\ c.w = 4 /\ c.n = 4

\* C11: a successful embed_message of a message with n = 16 + 8*len(bytes)
\* bits leaves channels 1 and 2 of every pixel, bits 1-7 of channel 0 of every
\* pixel, and channel 0 of every pixel outside the n generated positions as
\* they were; afterwards the channel-0 least-significant bit at position i is
\* bit i of the bitstream: the 16-bit big-endian length, then the payload
\* bytes, each most-significant bit first.
C11_EmbedFrame ==
    (ret.op = "embed" /\ ~ret.raised)
    => LET n == TotalBits(ret.msglen)
           positions == GeneratePositions(0, compute_border_hash(input),
                                          input.h, input.w, n).positions
           at == {positions[i] : i \in 1..n}
           stream == <<ret.msglen \div 256, ret.msglen % 256>>
                         \o Utf8Table[embedded]
       IN  /\ Len(stream) * 8 = n
           /\ \A y \in 0..(input.h - 1), x \in 0..(input.w - 1) :
                  /\ buffer.px[y][x][1] = input.px[y][x][1]
                  /\ buffer.px[y][x][2] = input.px[y][x][2]
                  /\ buffer.px[y][x][0] \div 2 = input.px[y][x][0] \div 2
                  /\ <<y, x>> \notin at
                         => buffer.px[y][x][0] = input.px[y][x][0]
           /\ \A i \in 0..(n - 1) :
                  buffer.px[positions[i + 1][1]][positions[i + 1][2]][0] % 2
                      = (stream[(i \div 8) + 1] \div (2 ^ (7 - (i % 8)))) % 2

\* A two-byte message written into an image whose interior channel 0 was 255
\* everywhere and which has more interior pixels than the message has bits.
C11_Witness ==
    /\ ret.op = "embed" /\ ~ret.raised
    /\ ret.msglen = 2 /\ embedded = <<233>>
    /\ Interior(input) > TotalBits(ret.msglen)
    /\ input.px[1][1][0] = 255
    /\ buffer # input
    /\ \E y \in 1..(input.h - 2), x \in 1..(input.w - 2) :
           buffer.px[y][x][0] = 255

=============================================================================
